---- MODULE Spec2Model ----
(***************************************************************************)
(* Model of steamexporter.py: SteamGameRecordingExporter.                   *)
(*                                                                         *)
(* File names are sequences of tokens.  A token is one character that      *)
(* sanitize_filename may rewrite (" ", ":", "_", ...) or an atomic piece   *)
(* of text holding none of them at its ends ("Dota", "2024-01-01",          *)
(* ".mp4").  The output directory is the function outfiles from file name  *)
(* to what the file holds; a clip is identified by its path (an index),    *)
(* its folder name is clip_names[c].                                       *)
(***************************************************************************)
EXTENDS Integers, Sequences, FiniteSets, TLC

\* ------------------------------------------------------------------ bounds
NumClips == 2
MaxManifests == 2
MaxRuns == 2
MaxFaults == 1
MaxCpus == 16
MaxRoots == 2
MaxEntries == 2
MaxChunk == 11

\* ------------------------------------------------------- naming conventions
InvalidChars == {"<", ">", ":", "\"", "|", "?", "*", "\\", "/", " "}

Ext == ".mp4"

ReplaceInvalid(s) == [i \in DOMAIN s |-> IF s[i] \in InvalidChars THEN "_" ELSE s[i]]

HasDouble(s) == \E i \in 1..(Len(s) - 1) : s[i] = "_" /\ s[i + 1] = "_"

RECURSIVE ReplaceDouble(_)
ReplaceDouble(s) ==
    IF Len(s) < 2 THEN s
    ELSE IF s[1] = "_" /\ s[2] = "_"
         THEN <<"_">> \o ReplaceDouble(SubSeq(s, 3, Len(s)))
         ELSE <<s[1]>> \o ReplaceDouble(Tail(s))

RECURSIVE CollapseUnderscores(_)
CollapseUnderscores(s) ==
    IF HasDouble(s) THEN CollapseUnderscores(ReplaceDouble(s)) ELSE s

RECURSIVE LStrip(_)
LStrip(s) == IF s # <<>> /\ Head(s) = "_" THEN LStrip(Tail(s)) ELSE s

RECURSIVE RStrip(_)
RStrip(s) ==
    IF s # <<>> /\ s[Len(s)] = "_" THEN RStrip(SubSeq(s, 1, Len(s) - 1)) ELSE s

sanitize_filename(filename) ==
    RStrip(LStrip(CollapseUnderscores(ReplaceInvalid(filename))))

\* os.path.splitext on a token sequence: the extension is a last token that
\* starts with a dot and is not the whole name.
splitext(filename) ==
    IF Len(filename) >= 2 /\ filename[Len(filename)] = Ext
    THEN <<SubSeq(filename, 1, Len(filename) - 1), <<Ext>>>>
    ELSE <<filename, <<>>>>

Numbered(base_name, counter, ext) == base_name \o <<"_", ToString(counter)>> \o ext

\* datetime.strptime(parts[-2] + parts[-1], "%Y%m%d%H%M%S") and strftime.
DateFmt == ("00010101" :> "0001-01-01") @@ ("20230101" :> "2023-01-01")
           @@ ("20240101" :> "2024-01-01")
TimeFmt == ("000000" :> "00-00-00") @@ ("153000" :> "15-30-00")

formatted_date(parts) ==
    IF Len(parts) >= 3
    THEN IF parts[Len(parts) - 1] \in DOMAIN DateFmt /\ parts[Len(parts)] \in DOMAIN TimeFmt
         THEN <<DateFmt[parts[Len(parts) - 1]], "_", TimeFmt[parts[Len(parts)]]>>
         ELSE <<"UnknownDate">>
    ELSE <<"UnknownDate">>

folder_game_id(parts) == IF Len(parts) >= 2 THEN parts[2] ELSE "Unknown"

\* ---------------------------------------------------------- game name cache
DigitIds == {"570", "730"}

SteamName(game_id) == IF game_id = "570" THEN <<"Dota", " ", "2">> ELSE <<"CS">>

NoName == <<>>

\* fetch_game_name_from_steam: a non-numeric id is its own name; otherwise the
\* store answers with the name or the request fails (None).
FetchResults(game_id) ==
    IF game_id \in DigitIds THEN {SteamName(game_id), NoName} ELSE {<<game_id>>}

get_game_name(cache, game_id, fetched) ==
    IF game_id \in DOMAIN cache THEN cache[game_id]
    ELSE IF fetched # NoName THEN fetched
    ELSE <<"Game", "_", game_id>>

\* lines 204 and 210: self.game_ids[game_id] = name
cache_put(cache, game_id, name) == (game_id :> name) @@ cache

cache_after(cache, game_id, fetched) ==
    IF game_id \in DOMAIN cache THEN cache
    ELSE (game_id :> get_game_name(cache, game_id, fetched)) @@ cache

\* ------------------------------------------------------------ output names
base_filename(cache, parts, fetched) ==
    get_game_name(cache, folder_game_id(parts), fetched) \o <<"_">> \o formatted_date(parts)

get_expected_output_filename(cache, parts, fetched) ==
    base_filename(cache, parts, fetched) \o <<Ext>>

RECURSIVE UniqueFrom(_, _, _, _)
UniqueFrom(files, base_name, ext, counter) ==
    IF Numbered(base_name, counter, ext) \in files
    THEN UniqueFrom(files, base_name, ext, counter + 1)
    ELSE Numbered(base_name, counter, ext)

\* get_unique_filename without the loop of line 361
get_unique_filename_unchecked(files, filename) == sanitize_filename(filename)

get_unique_filename(files, filename) ==
    LET clean == sanitize_filename(filename)
        se == splitext(clean)
    IN  IF clean \in files THEN UniqueFrom(files, se[1], se[2], 1) ELSE clean

ProbeLimit == 100

NoFile == <<>>

\* the loop of line 418 going on to counter ProbeLimit + 1
ProbeFrom_one_more(files, base_name, ext, counter) ==
    IF \E n \in counter..(ProbeLimit + 1) : Numbered(base_name, n, ext) \in files
    THEN Numbered(base_name,
                  CHOOSE n \in counter..(ProbeLimit + 1) :
                      /\ Numbered(base_name, n, ext) \in files
                      /\ \A m \in counter..(n - 1) : Numbered(base_name, m, ext) \notin files,
                  ext)
    ELSE NoFile

\* lines 417-422: the loop from counter up to ProbeLimit, returning the
\* first variant that exists (the loop is written as the least counter that
\* hits, which is what its turns compute).
ProbeFrom(files, base_name, ext, counter) ==
    LET hits == {n \in counter..ProbeLimit : Numbered(base_name, n, ext) \in files}
    IN  IF hits = {} THEN NoFile
        ELSE Numbered(base_name, CHOOSE n \in hits : \A m \in hits : n <= m, ext)

check_converted_exists(files, expected_file) ==
    IF expected_file \in files THEN expected_file
    ELSE ProbeFrom(files, splitext(expected_file)[1], splitext(expected_file)[2], 1)

\* the os.path.exists calls check_converted_exists makes: line 412, then line
\* 420 once per turn of the loop, which ends at the first variant that exists
\* or after counter ProbeLimit.
ProbesFrom(files, base_name, ext, counter) ==
    LET hits == {n \in counter..ProbeLimit : Numbered(base_name, n, ext) \in files}
    IN  IF hits = {} THEN ProbeLimit - counter + 1
        ELSE (CHOOSE n \in hits : \A m \in hits : n <= m) - counter + 1

probes_made(files, expected_file) ==
    IF expected_file \in files THEN 1
    ELSE 1 + ProbesFrom(files, splitext(expected_file)[1], splitext(expected_file)[2], 1)

\* ---------------------------------------------------------- source folders
Manifest(v, a) == [init_video |-> v, init_audio |-> a]

Folder(ms, stray) == [exists |-> TRUE, manifests |-> ms, stray_m4s |-> stray]

Absent == [exists |-> FALSE, manifests |-> <<>>, stray_m4s |-> FALSE]

\* find_session_mpd: one entry per directory of the subtree holding session.mpd.
find_session_mpd(fold) == IF fold.exists THEN fold.manifests ELSE <<>>

\* the safety check of delete_source_folder: some file of the subtree is
\* session.mpd or ends with .m4s.
has_marker(fold) ==
    \/ Len(fold.manifests) > 0
    \/ fold.stray_m4s

\* delete_source_folder without its safety check
delete_source_folder_unchecked(fold, rmtree_ok) ==
    IF fold.exists
    THEN IF rmtree_ok THEN [ok |-> TRUE, folder |-> Absent]
         ELSE [ok |-> FALSE, folder |-> fold]
    ELSE [ok |-> TRUE, folder |-> fold]

\* delete_source_folder reporting a folder that does not exist as a failure
delete_source_folder_strict(fold, rmtree_ok) ==
    IF fold.exists
    THEN IF has_marker(fold)
         THEN IF rmtree_ok THEN [ok |-> TRUE, folder |-> Absent]
              ELSE [ok |-> FALSE, folder |-> fold]
         ELSE [ok |-> FALSE, folder |-> fold]
    ELSE [ok |-> FALSE, folder |-> fold]

\* delete_source_folder(clip_folder): rmtree_ok is whether shutil.rmtree succeeds
\* (an exception is caught and reported as False).
delete_source_folder(fold, rmtree_ok) ==
    IF fold.exists
    THEN IF has_marker(fold)
         THEN IF rmtree_ok THEN [ok |-> TRUE, folder |-> Absent]
              ELSE [ok |-> FALSE, folder |-> fold]
         ELSE [ok |-> FALSE, folder |-> fold]
    ELSE [ok |-> TRUE, folder |-> fold]

\* ------------------------------------------------------------------- state
VARIABLES
    clip_folders,    \* the list handed to process_clips_batch / cleanup_existing_sources
    clip_names,      \* clip -> os.path.basename(clip_folder).split('_')
    max_workers,     \* self.max_workers
    folder,          \* clip -> the source folder on disk
    game_ids,        \* self.game_ids
    game_ids_file,   \* what GameIDs.json holds
    outfiles,        \* output directory: file name -> [by, kind, run]
    temp_dir_exists, \* output_dir/.temp exists
    temp_files,      \* files in output_dir/.temp
    sys_temp,        \* files of other programs in tempfile.gettempdir()
    sys_temp_exists, \* tempfile.gettempdir() exists
    op,              \* the call in progress or last returned: "none", "batch", "cleanup"
    delete_source,   \* its delete_source argument
    run,             \* number of calls made
    budget,          \* calls the user may still make, faults the environment may still cause
    bpc,             \* position of the calling thread: "idle", "pool", "delete", "scan"
    pc,              \* clip -> position of its process_single_clip task
    temp_files_to_cleanup, \* clip -> files its task registered for cleanup
    output_file,     \* clip -> the path get_unique_filename returned
    game_name,       \* clip -> the name get_game_name returned to its line 458
    result,          \* clip -> outcome of its task
    successful,      \* results['successful']
    failed,          \* results['failed']
    del_idx,         \* index of the deletion loop over results['successful']
    deleted,         \* cleanup results['deleted']
    skipped,         \* cleanup results['skipped']
    scan_idx,        \* index of the loop of cleanup_existing_sources
    created,         \* history: clip -> temporary files its task created
    invoked,         \* history: clip -> transcoder invocations of its task
    src,             \* history: clip -> its folder when its task started
    prev,            \* history: clip -> outcome of its task in the previous call
    del_calls,       \* history: delete_source_folder calls of the current call
    overwritten,     \* history: output files written over an existing file
    answer,          \* the last get_unique_filename or check_converted_exists call made alone
    scan_request,    \* the arguments of get_clip_folders and the directories it will meet
    scan_pc,         \* position of get_clip_folders: "idle", "scan", "sort", "done", "raised"
    clip_dirs,       \* its clip_dirs, those of every steam id one after the other
    dir_idx,         \* index of its loop over clip_dirs
    found,           \* its local list clip_folders
    returned,        \* the list it returned
    chunk_indices,   \* the N of the chunk-stream<s>-<N>.m4s files of a manifest directory
    staged           \* the stream staged from them: what was written, in order

vars == <<clip_folders, clip_names, max_workers, folder, game_ids, game_ids_file, outfiles,
          temp_dir_exists, temp_files, sys_temp, sys_temp_exists, op, delete_source, run,
          budget, bpc, pc, temp_files_to_cleanup, output_file, game_name, result, successful, failed, del_idx,
          deleted, skipped, scan_idx, created, invoked, src, prev, del_calls,
          overwritten, answer, scan_request, scan_pc, clip_dirs, dir_idx, found, returned,
          chunk_indices, staged>>

staging_vars == <<chunk_indices, staged>>

discovery_vars == <<scan_request, scan_pc, clip_dirs, dir_idx, found, returned>>
env_vars == <<clip_folders, clip_names, max_workers, answer, discovery_vars, staging_vars>>
fs_vars == <<folder, game_ids, game_ids_file, outfiles, temp_dir_exists, temp_files, sys_temp,
             sys_temp_exists>>
call_vars == <<op, delete_source, run>>
task_vars == <<pc, temp_files_to_cleanup, output_file, game_name, result, created, invoked, src>>
batch_vars == <<successful, failed, del_idx>>
scan_vars == <<deleted, skipped, scan_idx>>

\* ---------------------------------------------------------------- outcomes
\* (success_flag, result_message) of process_single_clip; raised = the call
\* ended with an exception instead of returning.
Res(ok, kind, file, dir, diag) ==
    [ok |-> ok, kind |-> kind, file |-> file, dir |-> dir, diag |-> diag, raised |-> FALSE]

NoResult == Res(FALSE, "None", NoFile, 0, "")

Raised(diag) ==
    [ok |-> FALSE, kind |-> "Raised", file |-> NoFile, dir |-> 0, diag |-> diag, raised |-> TRUE]

AlreadyKinds == {"AlreadyDeleted", "AlreadyDeleteFailed", "AlreadySkipped"}

StderrKinds == {"empty", "text", "undecodable"}

\* ------------------------------------------------------------- initial state
CleanName == <<"clip", "730", "20240101", "153000">>

SpacedName == <<"clip", "570", "20240101", "153000">>

Complete == Manifest(TRUE, TRUE)

RECURSIVE Completes(_)
Completes(n) == IF n = 0 THEN <<>> ELSE Append(Completes(n - 1), Complete)

\* the clips handed to a call: a folder name and the folder's content.  A
\* complete single manifest under either game, the longest folder whose last
\* manifest lacks its audio initialization file, a folder whose only manifest
\* lacks its video initialization file, a folder holding stray .m4s files only,
\* and a folder holding neither manifest nor segment.
ClipProfiles ==
    { [name |-> CleanName, folder |-> Folder(<<Complete>>, FALSE)],
      [name |-> SpacedName, folder |-> Folder(<<Complete>>, FALSE)],
      [name |-> CleanName,
       folder |-> Folder(Append(Completes(MaxManifests - 1), Manifest(TRUE, FALSE)), FALSE)],
      [name |-> CleanName, folder |-> Folder(<<Manifest(FALSE, TRUE)>>, FALSE)],
      [name |-> CleanName, folder |-> Folder(<<>>, TRUE)],
      [name |-> CleanName, folder |-> Folder(<<>>, FALSE)] }

\* GameIDs.json after a json.dump that no other writer disturbed, and after
\* two writers had it open at once.
Saved(cache) == [valid |-> TRUE, ids |-> cache]

Torn(cache) == [valid |-> FALSE, ids |-> cache]

\* load_game_ids: what GameIDs.json held when the exporter was constructed
StartCache == [g \in {"730"} |-> SteamName(g)]

\* self.max_workers of __init__: the argument, or the default when the argument
\* is None or 0 (0 stands for None, also for os.cpu_count() returning None).
Min(a, b) == IF a < b THEN a ELSE b

Max(a, b) == IF a > b THEN a ELSE b

default_max_workers(cpu_count) ==
    Min(6, Max(2, (IF cpu_count = 0 THEN 1 ELSE cpu_count) \div 2))

init_max_workers(given, cpu_count) ==
    IF given # 0 THEN given ELSE default_max_workers(cpu_count)

\* files left in the output directory by earlier use
OutInits ==
    { <<>>,
      (<<"CS", "_", "2024-01-01", "_", "15-30-00", Ext>> :> [by |-> 0, kind |-> "full", run |-> 0]) }

SysTempInit ==
    { [name |-> "tmp_old", ext |-> ".mp4", old |-> TRUE],
      [name |-> "tmp_new", ext |-> ".txt", old |-> FALSE],
      [name |-> "other", ext |-> ".log", old |-> TRUE] }

\* no get_unique_filename or check_converted_exists call was made alone
NoAnswer == [call |-> "none", path |-> NoFile, probes |-> 0]

\* get_clip_folders was not called
NoDiscovery ==
    /\ scan_request = [roots |-> <<>>, media_type |-> "all", game_id |-> ""]
    /\ scan_pc = "idle"
    /\ clip_dirs = <<>>
    /\ dir_idx = 0
    /\ found = <<>>
    /\ returned = <<>>

\* no process_clips_batch or cleanup_existing_sources call was made, and no
\* stream was staged alone
NoStaged == [stream |-> "none", parts |-> <<>>]

NoCall ==
    /\ chunk_indices = {}
    /\ staged = NoStaged
    /\ temp_dir_exists = FALSE
    /\ temp_files = {}
    /\ sys_temp = SysTempInit
    /\ sys_temp_exists = TRUE
    /\ op = "none"
    /\ delete_source = FALSE
    /\ run = 0
    /\ bpc = "idle"
    /\ successful = <<>>
    /\ failed = <<>>
    /\ del_idx = 0
    /\ deleted = <<>>
    /\ skipped = <<>>
    /\ scan_idx = 0
    /\ del_calls = {}
    /\ overwritten = {}

InitState ==
    /\ answer = NoAnswer
    /\ NoDiscovery
    /\ \E n \in 0..NumClips :
        /\ clip_folders = [i \in 1..n |-> i]
        /\ \E prof \in [1..n -> ClipProfiles] :
            /\ clip_names = [c \in 1..n |-> prof[c].name]
            /\ folder = [c \in 1..n |-> prof[c].folder]
        /\ pc = [c \in 1..n |-> "idle"]
        /\ temp_files_to_cleanup = [c \in 1..n |-> {}]
        /\ output_file = [c \in 1..n |-> NoFile]
        /\ game_name = [c \in 1..n |-> NoName]
        /\ result = [c \in 1..n |-> NoResult]
        /\ created = [c \in 1..n |-> {}]
        /\ invoked = [c \in 1..n |-> <<>>]
        /\ src = [c \in 1..n |-> Absent]
        /\ prev = [c \in 1..n |-> NoResult]
    /\ \E given \in {0, 1}, cpu_count \in {0, MaxCpus} :
        max_workers = init_max_workers(given, cpu_count)
    /\ game_ids = StartCache
    /\ game_ids_file = Saved(StartCache)
    /\ outfiles \in OutInits
    /\ NoCall

\* one call, in an environment that may fail
Init == InitState /\ budget = [calls |-> 1, faults |-> MaxFaults]

\* several calls one after the other, in an environment that does not fail
InitRerun == InitState /\ budget = [calls |-> MaxRuns, faults |-> 0]

TheClips == DOMAIN clip_folders

\* ------------------------------------------------------------ the two calls
ResetTasks(start) ==
    /\ pc' = [c \in TheClips |-> start]
    /\ temp_files_to_cleanup' = [c \in TheClips |-> {}]
    /\ output_file' = [c \in TheClips |-> NoFile]
    /\ game_name' = [c \in TheClips |-> NoName]
    /\ result' = [c \in TheClips |-> NoResult]
    /\ created' = [c \in TheClips |-> {}]
    /\ invoked' = [c \in TheClips |-> <<>>]
    /\ src' = [c \in TheClips |-> Absent]
    /\ prev' = result
    /\ del_calls' = {}

\* process_clips_batch, up to the submission of every clip to the pool; an
\* empty list returns at once.
ProcessClipsBatch(ds) ==
    /\ bpc = "idle"
    /\ budget.calls > 0
    /\ budget' = [budget EXCEPT !.calls = @ - 1]
    /\ op' = "batch"
    /\ delete_source' = ds
    /\ run' = run + 1
    /\ successful' = <<>>
    /\ failed' = <<>>
    /\ del_idx' = 0
    /\ ResetTasks("queued")
    /\ bpc' = IF clip_folders = <<>> THEN "idle" ELSE "pool"
    /\ UNCHANGED <<env_vars, fs_vars, scan_vars, overwritten>>

\* cleanup_existing_sources, up to its loop.
CleanupExistingSources ==
    /\ bpc = "idle"
    /\ budget.calls > 0
    /\ budget' = [budget EXCEPT !.calls = @ - 1]
    /\ op' = "cleanup"
    /\ delete_source' = FALSE
    /\ run' = run + 1
    /\ deleted' = <<>>
    /\ skipped' = <<>>
    /\ scan_idx' = 1
    /\ ResetTasks("idle")
    /\ bpc' = IF clip_folders = <<>> THEN "idle" ELSE "scan"
    /\ UNCHANGED <<env_vars, fs_vars, batch_vars, overwritten>>

\* ------------------------------------------------------ process_single_clip
\* the environment causes n more faults
Spend(n) == budget' = [budget EXCEPT !.faults = @ - n]

\* whether shutil.rmtree succeeds: it may fail while faults are left
RmtreeChoices == IF budget.faults > 0 THEN BOOLEAN ELSE {TRUE}

\* a delete_source_folder call that reached shutil.rmtree and saw it fail
RmtreeFailed(fold, rmtree_ok) == fold.exists /\ has_marker(fold) /\ ~rmtree_ok

Running ==
    {c \in TheClips : pc[c] \in {"check", "fetch", "save", "named", "stage", "mux", "cleanup"}}

\* a pool that starts a thread for every submitted task
pool_unbounded(running, workers) == TRUE

\* a pool whose thread is not given another task after its first one returned
pool_threads_not_reused(running, workers) ==
    Cardinality({c \in DOMAIN pc : pc[c] # "queued"}) < workers

\* line 663: ThreadPoolExecutor(max_workers=effective_workers) runs a queued
\* task only on a thread no other task occupies.
pool_has_idle_worker(running, workers) == Cardinality(running) < workers

Pending == {c \in TheClips : pc[c] \notin {"done", "collected"}}

DelCall(c, by, before, d) ==
    [clip |-> c, by |-> by, before |-> before, after |-> d.folder, ok |-> d.ok,
     pending |-> Pending]

\* a worker of the pool takes the oldest queued task.
TaskStart(c) ==
    /\ bpc = "pool"
    /\ pc[c] = "queued"
    /\ \A d \in TheClips : d < c => pc[d] # "queued"
    /\ pool_has_idle_worker(Running, max_workers)
    /\ pc' = [pc EXCEPT ![c] = "check"]
    /\ src' = [src EXCEPT ![c] = folder[c]]
    /\ UNCHANGED <<budget, env_vars, fs_vars, call_vars, bpc, batch_vars, scan_vars,
                   temp_files_to_cleanup, output_file, game_name, result, created, invoked,
                   prev, del_calls, overwritten>>

\* lines 463-467 returning False
already_converted_as_failure(existing, ds, del_ok) ==
    Res(FALSE, "AlreadySkipped", existing, 0, "")

\* the outcome of the "already converted" branch.
already_converted(existing, ds, del_ok) ==
    IF ds
    THEN IF del_ok THEN Res(TRUE, "AlreadyDeleted", existing, 0, "")
         ELSE Res(TRUE, "AlreadyDeleteFailed", existing, 0, "")
    ELSE Res(TRUE, "AlreadySkipped", existing, 0, "")

\* line 199, reached from line 458: the game id of the clip is not cached.
TaskCacheMiss(c) ==
    /\ pc[c] = "check"
    /\ folder_game_id(clip_names[c]) \notin DOMAIN game_ids
    /\ pc' = [pc EXCEPT ![c] = "fetch"]
    /\ UNCHANGED <<budget, env_vars, fs_vars, call_vars, bpc, batch_vars, scan_vars,
                   temp_files_to_cleanup, output_file, game_name, result, created, invoked,
                   src, prev, del_calls, overwritten>>

\* lines 202-204 and 209-210: the store has answered or the request has failed;
\* the name is put in self.game_ids, over whatever another worker put there.
TaskFetch(c) ==
    /\ pc[c] = "fetch"
    /\ \E fetched \in FetchResults(folder_game_id(clip_names[c])) :
        LET name == get_game_name(<<>>, folder_game_id(clip_names[c]), fetched)
        IN  /\ game_ids' = cache_put(game_ids, folder_game_id(clip_names[c]), name)
            /\ game_name' = [game_name EXCEPT ![c] = name]
    /\ pc' = [pc EXCEPT ![c] = "save"]
    /\ UNCHANGED <<budget, env_vars, folder, game_ids_file, outfiles, temp_dir_exists,
                   temp_files, sys_temp, sys_temp_exists, call_vars, bpc, batch_vars,
                   scan_vars, temp_files_to_cleanup, output_file, result, created, invoked,
                   src, prev, del_calls, overwritten>>

\* the workers inside save_game_ids
Saving == {c \in TheClips : pc[c] = "save"}

\* lines 176-178: what GameIDs.json holds when the json.dump of worker c ends.
save_game_ids(cache, others) ==
    IF others = {} THEN {Saved(cache)} ELSE {Saved(cache), Torn(cache)}

\* lines 205 and 211: save_game_ids returns and get_game_name returns the
\* name, or save_game_ids raises and line 632 returns the failure.
TaskSave(c) ==
    /\ pc[c] = "save"
    /\ \/ /\ game_ids_file' \in save_game_ids(game_ids, Saving \ {c})
          /\ pc' = [pc EXCEPT ![c] = "named"]
          /\ UNCHANGED <<budget, result>>
       \/ /\ budget.faults > 0
          /\ Spend(1)
          /\ result' = [result EXCEPT ![c] = Res(FALSE, "Error", NoFile, 0, "")]
          /\ pc' = [pc EXCEPT ![c] = "done"]
          /\ UNCHANGED game_ids_file
    /\ UNCHANGED <<env_vars, folder, game_ids, outfiles, temp_dir_exists, temp_files,
                   sys_temp, sys_temp_exists, call_vars, bpc, batch_vars, scan_vars,
                   temp_files_to_cleanup, output_file, game_name, created, invoked, src,
                   prev, del_calls, overwritten>>

\* the cache as the get_game_name call of line 458 answered for clip c
seen_cache(c) ==
    IF pc[c] = "named"
    THEN cache_put(game_ids, folder_game_id(clip_names[c]), game_name[c])
    ELSE game_ids

\* lines 456-475: the check for an existing output, the search for manifests
\* and the creation of the staging directory.
TaskCheck(c) ==
    /\ \/ pc[c] = "check" /\ folder_game_id(clip_names[c]) \in DOMAIN game_ids
       \/ pc[c] = "named"
    /\ \E rmtree_ok \in RmtreeChoices :
        LET expected == get_expected_output_filename(seen_cache(c), clip_names[c], NoName)
            existing == check_converted_exists(DOMAIN outfiles, expected)
            d == delete_source_folder(folder[c], rmtree_ok)
        IN  /\ Spend(IF existing # NoFile /\ delete_source /\ RmtreeFailed(folder[c], rmtree_ok)
                     THEN 1 ELSE 0)
            /\ IF existing # NoFile
               THEN /\ result' = [result EXCEPT ![c] = already_converted(existing, delete_source, d.ok)]
                    /\ folder' = IF delete_source THEN [folder EXCEPT ![c] = d.folder] ELSE folder
                    /\ del_calls' = IF delete_source
                                    THEN del_calls \cup {DelCall(c, "task", folder[c], d)}
                                    ELSE del_calls
                    /\ pc' = [pc EXCEPT ![c] = "done"]
                    /\ UNCHANGED temp_dir_exists
               ELSE IF find_session_mpd(folder[c]) = <<>>
               THEN /\ result' = [result EXCEPT ![c] = Res(FALSE, "NoSessionMpd", NoFile, 0, "")]
                    /\ pc' = [pc EXCEPT ![c] = "done"]
                    /\ UNCHANGED <<folder, del_calls, temp_dir_exists>>
               ELSE /\ temp_dir_exists' = TRUE
                    /\ pc' = [pc EXCEPT ![c] = "stage"]
                    /\ UNCHANGED <<folder, del_calls, result>>
    /\ UNCHANGED <<env_vars, game_ids, game_ids_file, outfiles, temp_files, sys_temp,
                   sys_temp_exists, call_vars, bpc, batch_vars, scan_vars,
                   temp_files_to_cleanup, output_file, game_name, created, invoked, src,
                   prev, overwritten>>

\* a temporary file of the task of clip c in the current call
Tmp(c, kind, idx) == [clip |-> c, run |-> run, kind |-> kind, idx |-> idx]

NoFault == [at |-> "none", idx |-> 0, stderr |-> ""]

\* what can go wrong between line 485 and line 570: an I/O error while a staged
\* stream is written, while the list or concat files are created or written,
\* or a transcoder failure.
StageFaults ==
    {NoFault}
    \cup {[at |-> a, idx |-> i, stderr |-> ""] : a \in {"video", "audio"}, i \in 1..MaxManifests}
    \cup {[at |-> a, idx |-> 0, stderr |-> ""] : a \in {"list_create", "list_write", "concat_create"}}
    \cup {[at |-> a, idx |-> 0, stderr |-> e] : a \in {"ffmpeg_video", "ffmpeg_audio"}, e \in StderrKinds}

StageState(cr, reg, inv, res) == [created |-> cr, registered |-> reg, invoked |-> inv, res |-> res]

\* one transcoder invocation: which, whether it exited 0, and its stderr
Invocation(what, ok, stderr) == [what |-> what, ok |-> ok, stderr |-> stderr]

\* lines 534-551 with check=False: the exit status of a remux is not looked at
stage_lists_unchecked(c, fault, st) ==
    LET tmp == {Tmp(c, "video_list", 0), Tmp(c, "audio_list", 0),
                Tmp(c, "concat_video", 0), Tmp(c, "concat_audio", 0)}
    IN  StageState(st.created \cup tmp, st.registered \cup tmp,
                   <<Invocation("video", fault.at # "ffmpeg_video", fault.stderr),
                     Invocation("audio", fault.at # "ffmpeg_audio", fault.stderr)>>,
                   NoResult)

\* lines 516-551, after every manifest was staged: st.res stays NoResult when
\* both remux invocations succeeded.
stage_lists(c, fault, st) ==
    LET vl == Tmp(c, "video_list", 0)
        al == Tmp(c, "audio_list", 0)
        cv == Tmp(c, "concat_video", 0)
        ca == Tmp(c, "concat_audio", 0)
        io == Res(FALSE, "Error", NoFile, 0, "")
    IN  IF fault.at = "list_create"
        THEN StageState(st.created \cup {vl}, st.registered, <<>>, io)
        ELSE IF fault.at = "list_write"
        THEN StageState(st.created \cup {vl, al}, st.registered \cup {vl, al}, <<>>, io)
        ELSE IF fault.at = "concat_create"
        THEN StageState(st.created \cup {vl, al, cv}, st.registered \cup {vl, al}, <<>>, io)
        ELSE IF fault.at = "ffmpeg_video"
        THEN StageState(st.created \cup {vl, al, cv, ca}, st.registered \cup {vl, al, cv, ca},
                        <<Invocation("video", FALSE, fault.stderr)>>,
                        Res(FALSE, "CalledProcessError", NoFile, 0, fault.stderr))
        ELSE IF fault.at = "ffmpeg_audio"
        THEN StageState(st.created \cup {vl, al, cv, ca}, st.registered \cup {vl, al, cv, ca},
                        <<Invocation("video", TRUE, ""), Invocation("audio", FALSE, fault.stderr)>>,
                        Res(FALSE, "CalledProcessError", NoFile, 0, fault.stderr))
        ELSE StageState(st.created \cup {vl, al, cv, ca}, st.registered \cup {vl, al, cv, ca},
                        <<Invocation("video", TRUE, ""), Invocation("audio", TRUE, "")>>, NoResult)

\* line 491 testing the video initialization file only
init_files_present_video_only(m) == m.init_video

\* line 491: both initialization files of a manifest directory exist.
init_files_present(m) == m.init_video /\ m.init_audio

\* lines 486-514: the loop over the manifests, from manifest i on.
RECURSIVE stage_manifests(_, _, _, _, _)
stage_manifests(c, ms, i, fault, st) ==
    LET tv == Tmp(c, "video", i)
        ta == Tmp(c, "audio", i)
        io == Res(FALSE, "Error", NoFile, 0, "")
    IN  IF i > Len(ms) THEN stage_lists(c, fault, st)
        ELSE IF ~init_files_present(ms[i])
        THEN StageState(st.created, st.registered, <<>>, Res(FALSE, "MissingInit", NoFile, i, ""))
        ELSE IF fault.at = "video" /\ fault.idx = i
        THEN StageState(st.created \cup {tv}, st.registered, <<>>, io)
        ELSE IF fault.at = "audio" /\ fault.idx = i
        THEN StageState(st.created \cup {tv, ta}, st.registered \cup {tv}, <<>>, io)
        ELSE stage_manifests(c, ms, i + 1, fault,
                 StageState(st.created \cup {tv, ta}, st.registered \cup {tv, ta}, <<>>, NoResult))

\* lines 485-570: staging, the two remux invocations and the choice of the
\* output path.
TaskStage(c) ==
    /\ pc[c] = "stage"
    /\ \E fault \in StageFaults, fetched \in FetchResults(folder_game_id(clip_names[c])) :
        LET st == stage_manifests(c, find_session_mpd(folder[c]), 1, fault,
                                  StageState({}, {}, <<>>, NoResult))
            clean == stage_manifests(c, find_session_mpd(folder[c]), 1, NoFault,
                                     StageState({}, {}, <<>>, NoResult))
            name == base_filename(game_ids, clip_names[c], fetched) \o <<Ext>>
        IN  /\ fault = NoFault \/ (budget.faults > 0 /\ st # clean)
            /\ Spend(IF fault = NoFault THEN 0 ELSE 1)
            /\ created' = [created EXCEPT ![c] = st.created]
            /\ temp_files_to_cleanup' = [temp_files_to_cleanup EXCEPT ![c] = st.registered]
            /\ temp_files' = temp_files \cup st.created
            /\ invoked' = [invoked EXCEPT ![c] = st.invoked]
            /\ result' = [result EXCEPT ![c] = st.res]
            /\ IF st.res = NoResult
               THEN /\ game_ids' = cache_after(game_ids, folder_game_id(clip_names[c]), fetched)
                    /\ output_file' = [output_file EXCEPT ![c] =
                                          get_unique_filename(DOMAIN outfiles, name)]
                    /\ pc' = [pc EXCEPT ![c] = "mux"]
               ELSE /\ pc' = [pc EXCEPT ![c] = "cleanup"]
                    /\ UNCHANGED <<game_ids, output_file>>
    /\ UNCHANGED <<env_vars, folder, game_ids_file, outfiles, temp_dir_exists, sys_temp,
                   sys_temp_exists, call_vars, bpc, batch_vars, scan_vars, game_name, src,
                   prev, del_calls, overwritten>>

\* what the third transcoder invocation can do: exit 0 having written the
\* whole file, an empty file or nothing; exit non-zero having written a part of
\* the file or nothing.
MuxOutcomes ==
    {[exit_ok |-> TRUE, wrote |-> w, stderr |-> ""] : w \in {"full", "empty", "none"}}
    \cup {[exit_ok |-> FALSE, wrote |-> w, stderr |-> e] : w \in {"partial", "none"}, e \in StderrKinds}

MuxClean == [exit_ok |-> TRUE, wrote |-> "full", stderr |-> ""]

\* ffmpeg -y writes output_file whether or not it exists.
write_output(files, f, c, kind, r) == (f :> [by |-> c, kind |-> kind, run |-> r]) @@ files

\* lines 587-594: the verification of the output file.
verify_output(files, f) ==
    IF f \in DOMAIN files THEN Res(TRUE, "Converted", f, 0, "")
    ELSE Res(FALSE, "NotCreated", f, 0, "")

\* lines 575-594: the final mux and the verification of its output.
TaskMux(c) ==
    /\ pc[c] = "mux"
    /\ \E out \in MuxOutcomes :
        LET f == output_file[c]
            files == IF out.wrote = "none" THEN outfiles
                     ELSE write_output(outfiles, f, c, out.wrote, run)
        IN  /\ out = MuxClean \/ budget.faults > 0
            /\ Spend(IF out = MuxClean THEN 0 ELSE 1)
            /\ outfiles' = files
            /\ overwritten' = IF out.wrote # "none" /\ f \in DOMAIN outfiles
                              THEN overwritten \cup {[file |-> f, by |-> c, victim |-> outfiles[f].by]}
                              ELSE overwritten
            /\ invoked' = [invoked EXCEPT ![c] = Append(@, Invocation("mux", out.exit_ok, out.stderr))]
            /\ result' = [result EXCEPT ![c] =
                             IF out.exit_ok THEN verify_output(files, f)
                             ELSE Res(FALSE, "CalledProcessError", NoFile, 0, out.stderr)]
    /\ pc' = [pc EXCEPT ![c] = "cleanup"]
    /\ UNCHANGED <<env_vars, folder, game_ids, game_ids_file, temp_dir_exists, temp_files,
                   sys_temp, sys_temp_exists, call_vars, bpc, batch_vars, scan_vars,
                   temp_files_to_cleanup, output_file, game_name, created, src, prev,
                   del_calls>>

\* lines 629-632: the handlers around the whole body.  The message of a
\* transcoder failure is e.stderr.decode(), or str(e) when stderr is empty; a
\* decoding error raised inside the handler leaves the function.
finalize(res) ==
    IF res.kind = "CalledProcessError"
    THEN IF res.diag = "undecodable" THEN Raised("UnicodeDecodeError")
         ELSE Res(FALSE, "FFmpegError", NoFile, 0, IF res.diag = "empty" THEN "exit status" ELSE res.diag)
    ELSE res

\* line 610-614: a file of the system temporary directory swept by the cleanup.
Sweepable(f) ==
    /\ f.name \in {"tmp_old", "tmp_new"}
    /\ f.ext \in {".mp4", ".txt"}
    /\ f.old

\* lines 598-604: the files removed by the cleanup, stuck being those whose
\* unlink raised.
unlinked(registered, stuck) == registered \ stuck

\* lines 596-632: the finally block and the return.  Line 608 rebinds temp_dir
\* to tempfile.gettempdir(), so lines 623-625 test and remove that directory.
TaskCleanup(c) ==
    /\ pc[c] = "cleanup"
    /\ \E stuck \in SUBSET temp_files_to_cleanup[c] :
        /\ Cardinality(stuck) <= budget.faults
        /\ Spend(Cardinality(stuck))
        /\ temp_files' = temp_files \ unlinked(temp_files_to_cleanup[c], stuck)
    /\ sys_temp' = IF sys_temp_exists THEN {f \in sys_temp : ~Sweepable(f)} ELSE sys_temp
    /\ sys_temp_exists' = (sys_temp_exists /\ sys_temp' # {})
    /\ result' = [result EXCEPT ![c] = finalize(@)]
    /\ pc' = [pc EXCEPT ![c] = "done"]
    /\ UNCHANGED <<env_vars, folder, game_ids, game_ids_file, outfiles, temp_dir_exists,
                   call_vars, bpc, batch_vars, scan_vars, temp_files_to_cleanup, output_file,
                   game_name, created, invoked, src, prev, del_calls, overwritten>>

\* ------------------------------------------------------ process_clips_batch
Msg(c, r) == <<c, r>>

\* lines 672-684: one completed future.
collect_successful(succ, c, r) == IF ~r.raised /\ r.ok THEN Append(succ, c) ELSE succ

\* lines 672-684 without the except clause: a raised task is recorded nowhere
collect_failed_uncaught(fl, c, r) ==
    IF r.raised \/ r.ok THEN fl ELSE Append(fl, Msg(c, r))

collect_failed(fl, c, r) ==
    IF r.raised THEN Append(fl, Msg(c, Res(FALSE, "Unexpected", NoFile, 0, r.diag)))
    ELSE IF r.ok THEN fl
    ELSE Append(fl, Msg(c, r))

BatchCollect(c) ==
    /\ bpc = "pool"
    /\ pc[c] = "done"
    /\ successful' = collect_successful(successful, c, result[c])
    /\ failed' = collect_failed(failed, c, result[c])
    /\ pc' = [pc EXCEPT ![c] = "collected"]
    /\ UNCHANGED <<budget, env_vars, fs_vars, call_vars, bpc, scan_vars, del_idx,
                   temp_files_to_cleanup, output_file, game_name, result, created, invoked,
                   src, prev, del_calls, overwritten>>

\* line 690 going through every submitted clip, failed ones included
delete_targets_all(succ, fl) == succ \o [i \in DOMAIN fl |-> fl[i][1]]

\* line 690: the folders the deletion loop goes through.
delete_targets(succ, fl) == succ

\* line 687 not looking at delete_source
deletion_requested_always(ds, succ) == succ # <<>>

\* line 687: whether the deletion loop is entered.
deletion_requested(ds, succ) == ds /\ succ # <<>>

\* lines 686-687: the pool has shut down; the deletion loop is entered or the
\* call returns.
BatchJoin ==
    /\ bpc = "pool"
    /\ \A c \in TheClips : pc[c] = "collected"
    /\ IF deletion_requested(delete_source, successful)
       THEN bpc' = "delete" /\ del_idx' = 1
       ELSE bpc' = "idle" /\ del_idx' = 0
    /\ UNCHANGED <<budget, env_vars, fs_vars, call_vars, task_vars, successful, failed, scan_vars,
                   prev, del_calls, overwritten>>

\* lines 690-695: one turn of the deletion loop; the call returns after the last.
BatchDelete ==
    /\ bpc = "delete"
    /\ \E rmtree_ok \in RmtreeChoices :
        LET targets == delete_targets(successful, failed)
            c == targets[del_idx]
            d == delete_source_folder(folder[c], rmtree_ok)
        IN  /\ Spend(IF RmtreeFailed(folder[c], rmtree_ok) THEN 1 ELSE 0)
            /\ folder' = [folder EXCEPT ![c] = d.folder]
            /\ del_calls' = del_calls \cup {DelCall(c, "batch", folder[c], d)}
            /\ bpc' = IF del_idx = Len(targets) THEN "idle" ELSE "delete"
    /\ del_idx' = del_idx + 1
    /\ UNCHANGED <<env_vars, game_ids, game_ids_file, outfiles, temp_dir_exists, temp_files,
                   sys_temp, sys_temp_exists, call_vars, task_vars, successful, failed,
                   scan_vars, prev, overwritten>>

\* ------------------------------------------------- cleanup_existing_sources
\* whether the save_game_ids of a get_game_name call returns: it is reached
\* only when the id is not cached, and may raise while faults are left
SaveChoices(game_id) ==
    IF game_id \notin DOMAIN game_ids /\ budget.faults > 0 THEN BOOLEAN ELSE {TRUE}

\* line 727 appending the clip whatever delete_source_folder returned
scan_deleted_unconditional(del, c, existing, ok) ==
    IF existing # NoFile THEN Append(del, c) ELSE del

\* lines 724-727: results['deleted'] after the visit of clip c.
scan_deleted(del, c, existing, ok) ==
    IF existing # NoFile /\ ok THEN Append(del, c) ELSE del

\* lines 729-735: results['skipped'] after the visit of clip c.
scan_skipped(sk, c, existing, ok) ==
    IF existing = NoFile THEN Append(sk, <<c, "No converted file found">>)
    ELSE IF ok THEN sk
    ELSE Append(sk, <<c, "Failed to delete source">>)

\* lines 721-739: one turn of the loop; the call returns after the last.  An
\* exception of check_converted_exists is caught at line 736.
CleanupStep ==
    /\ bpc = "scan"
    /\ LET c == clip_folders[scan_idx]
           game_id == folder_game_id(clip_names[c])
       IN  \E fetched \in FetchResults(game_id), rmtree_ok \in RmtreeChoices,
              save_ok \in SaveChoices(game_id) :
            LET expected == get_expected_output_filename(game_ids, clip_names[c], fetched)
                existing == check_converted_exists(DOMAIN outfiles, expected)
                d == delete_source_folder(folder[c], rmtree_ok)
            IN  /\ game_ids' = cache_after(game_ids, game_id, fetched)
                /\ src' = [src EXCEPT ![c] = folder[c]]
                /\ IF ~save_ok
                   THEN /\ Spend(1)
                        /\ skipped' = Append(skipped, <<c, "Error checking clip">>)
                        /\ UNCHANGED <<game_ids_file, folder, deleted, del_calls>>
                   ELSE /\ Spend(IF existing # NoFile /\ RmtreeFailed(folder[c], rmtree_ok)
                                 THEN 1 ELSE 0)
                        /\ game_ids_file' = IF game_id \in DOMAIN game_ids THEN game_ids_file
                                            ELSE Saved(game_ids')
                        /\ folder' = IF existing # NoFile THEN [folder EXCEPT ![c] = d.folder]
                                     ELSE folder
                        /\ del_calls' = IF existing # NoFile
                                        THEN del_calls \cup {DelCall(c, "cleanup", folder[c], d)}
                                        ELSE del_calls
                        /\ deleted' = scan_deleted(deleted, c, existing, d.ok)
                        /\ skipped' = scan_skipped(skipped, c, existing, d.ok)
    /\ scan_idx' = scan_idx + 1
    /\ bpc' = IF scan_idx = Len(clip_folders) THEN "idle" ELSE "scan"
    /\ UNCHANGED <<env_vars, outfiles, temp_dir_exists, temp_files, sys_temp, sys_temp_exists,
                   call_vars, pc, temp_files_to_cleanup, output_file, game_name, result,
                   created, invoked, batch_vars, prev, overwritten>>

\* ------------------------------------------------------------ specification
Next ==
    \/ \E ds \in BOOLEAN : ProcessClipsBatch(ds)
    \/ CleanupExistingSources
    \/ \E c \in TheClips : TaskStart(c)
    \/ \E c \in TheClips : TaskCacheMiss(c)
    \/ \E c \in TheClips : TaskFetch(c)
    \/ \E c \in TheClips : TaskSave(c)
    \/ \E c \in TheClips : TaskCheck(c)
    \/ \E c \in TheClips : TaskStage(c)
    \/ \E c \in TheClips : TaskMux(c)
    \/ \E c \in TheClips : TaskCleanup(c)
    \/ \E c \in TheClips : BatchCollect(c)
    \/ BatchJoin
    \/ BatchDelete
    \/ CleanupStep

Spec == Init /\ [][Next]_vars

SpecRerun == InitRerun /\ [][Next]_vars

\* Once a call was made its threads are scheduled, every transcoder
\* invocation returns and as_completed hands over every finished future: a
\* step of the call that can be taken is taken. Calling is left to the user.
CallStep ==
    \/ \E c \in TheClips : TaskStart(c)
    \/ \E c \in TheClips : TaskCacheMiss(c)
    \/ \E c \in TheClips : TaskFetch(c)
    \/ \E c \in TheClips : TaskSave(c)
    \/ \E c \in TheClips : TaskCheck(c)
    \/ \E c \in TheClips : TaskStage(c)
    \/ \E c \in TheClips : TaskMux(c)
    \/ \E c \in TheClips : TaskCleanup(c)
    \/ \E c \in TheClips : BatchCollect(c)
    \/ BatchJoin
    \/ BatchDelete
    \/ CleanupStep

\* one call, in an environment that does not fail, by an exporter with no
\* more workers than there can be clips
InitLive ==
    /\ InitState
    /\ budget = [calls |-> 1, faults |-> 0]
    /\ max_workers <= NumClips

SpecLive == InitLive /\ [][Next]_vars /\ WF_vars(CallStep)

\* ------------------------------------- the naming functions called alone
\* every variable of the exporter but answer
conversion_vars == <<clip_folders, clip_names, max_workers, fs_vars, call_vars, budget, bpc,
                     task_vars, batch_vars, scan_vars, prev, del_calls, overwritten>>

exporter_vars == <<conversion_vars, staging_vars>>

\* game names the store may hold: one with each character sanitize_filename
\* replaces, one with a double underscore, one that sanitize_filename keeps.
GameNames ==
    {<<"CS">>, <<"A", "_", "_", "B">>} \cup {<<"A", ch, "B">> : ch \in InvalidChars}

\* folder names with a date that parses and with one that does not
NamedFolders == {CleanName, <<"clip", "730", "bad", "name">>, <<"clip", "730">>, <<"notes">>}

\* the cache after the names of "730" and of the id "Unknown" were looked up
NamesCache(name) == ("730" :> name) @@ ("Unknown" :> <<"Unknown">>)

\* the numbered variants of a file name that a directory may hold
SuffixesTried == {1, 2, ProbeLimit, ProbeLimit + 1}

Variants(file) ==
    {file} \cup {Numbered(splitext(file)[1], n, splitext(file)[2]) : n \in SuffixesTried}

Listing(files) == [f \in files |-> [by |-> 0, kind |-> "full", run |-> 0]]

InitNames ==
    /\ NoDiscovery
    /\ NoCall
    /\ answer = NoAnswer
    /\ budget = [calls |-> 0, faults |-> 0]
    /\ max_workers = init_max_workers(0, 0)
    /\ clip_folders = <<1>>
    /\ folder = <<Folder(<<Complete>>, FALSE)>>
    /\ pc = <<"idle">>
    /\ temp_files_to_cleanup = <<{}>>
    /\ output_file = <<NoFile>>
    /\ game_name = <<NoName>>
    /\ result = <<NoResult>>
    /\ created = <<{}>>
    /\ invoked = <<<<>>>>
    /\ src = <<Absent>>
    /\ prev = <<NoResult>>
    /\ \E parts \in NamedFolders, name \in GameNames :
        LET expected == get_expected_output_filename(NamesCache(name), parts, NoName)
        IN  /\ clip_names = <<parts>>
            /\ game_ids = NamesCache(name)
            /\ game_ids_file = Saved(NamesCache(name))
            /\ \E files \in (SUBSET Variants(expected))
                              \cup (SUBSET Variants(sanitize_filename(expected))) :
                outfiles = Listing(files)

\* line 570 alone: get_unique_filename(output_dir, f"{base_filename}.mp4")
CallGetUniqueFilename ==
    /\ bpc = "idle"
    /\ clip_folders # <<>>
    /\ answer' = [call |-> "get_unique_filename",
                  path |-> get_unique_filename(DOMAIN outfiles,
                               base_filename(game_ids, clip_names[1], NoName) \o <<Ext>>),
                  probes |-> 0]
    /\ UNCHANGED <<exporter_vars, discovery_vars>>

\* line 458 alone: check_converted_exists(clip_folder, output_dir)
CallCheckConvertedExists ==
    /\ bpc = "idle"
    /\ clip_folders # <<>>
    /\ LET expected == get_expected_output_filename(game_ids, clip_names[1], NoName)
       IN  answer' = [call |-> "check_converted_exists",
                      path |-> check_converted_exists(DOMAIN outfiles, expected),
                      probes |-> probes_made(DOMAIN outfiles, expected)]
    /\ UNCHANGED <<exporter_vars, discovery_vars>>

NextNames ==
    \/ CallGetUniqueFilename
    \/ CallCheckConvertedExists

SpecNames == InitNames /\ [][NextNames]_vars

\* --------------------------------------------------------- get_clip_folders
\* datetime.min
DatetimeMin == 0

\* datetime.strptime(parts[-2] + parts[-1], "%Y%m%d%H%M%S") as a number that
\* grows with the time; 0001-01-01 00:00:00 is datetime.min.
DateOrd == ("00010101" :> 0) @@ ("20230101" :> 1) @@ ("20240101" :> 2)
TimeOrd == ("000000" :> 0) @@ ("153000" :> 1)

strptime_ok(parts) ==
    /\ Len(parts) >= 3
    /\ parts[Len(parts) - 1] \in DOMAIN DateOrd
    /\ parts[Len(parts)] \in DOMAIN TimeOrd

extract_datetime_from_folder_name(parts) ==
    IF strptime_ok(parts)
    THEN 2 * DateOrd[parts[Len(parts) - 1]] + TimeOrd[parts[Len(parts)]]
    ELSE DatetimeMin

\* one os.scandir entry of a clip directory
Entry(name, is_dir, has_mpd) == [name |-> name, is_dir |-> is_dir, has_mpd |-> has_mpd]

OlderName == <<"clip", "570", "20230101", "153000">>

MinName == <<"clip", "730", "00010101", "000000">>

BadName == <<"clip", "730", "bad", "name">>

\* the entries a clip directory may hold: recordings of three dates, one whose
\* date does not parse, a folder without session.mpd, and a plain file.
EntryProfiles ==
    { Entry(CleanName, TRUE, TRUE), Entry(OlderName, TRUE, TRUE), Entry(MinName, TRUE, TRUE),
      Entry(BadName, TRUE, TRUE), Entry(CleanName, TRUE, FALSE), Entry(<<"notes">>, FALSE, FALSE) }

\* a clip directory: its entries in os.scandir order, and error_at = k > 0
\* when the scan raises OSError on reaching entry k (on opening an empty one).
ClipDirs ==
    UNION { {[entries |-> es, error_at |-> k] : k \in 0..Max(1, Len(es))} :
            es \in UNION {[1..n -> EntryProfiles] : n \in 0..MaxEntries} }

\* directory i is .../clips when i is odd and .../video when i is even
dir_kind(i) == IF i % 2 = 1 THEN "manual" ELSE "background"

InitScan ==
    /\ NoCall
    /\ answer = NoAnswer
    /\ budget = [calls |-> 0, faults |-> 0]
    /\ max_workers = init_max_workers(0, 0)
    /\ clip_folders = <<>>
    /\ clip_names = <<>>
    /\ folder = <<>>
    /\ pc = <<>>
    /\ temp_files_to_cleanup = <<>>
    /\ output_file = <<>>
    /\ game_name = <<>>
    /\ result = <<>>
    /\ created = <<>>
    /\ invoked = <<>>
    /\ src = <<>>
    /\ prev = <<>>
    /\ game_ids = StartCache
    /\ game_ids_file = Saved(StartCache)
    /\ outfiles = <<>>
    /\ \E roots \in [1..MaxRoots -> ClipDirs], media_type \in {"all", "manual"},
          game_id \in {"", "730", "20230101"} :
        scan_request = [roots |-> roots, media_type |-> media_type, game_id |-> game_id]
    /\ scan_pc = "idle"
    /\ clip_dirs = <<>>
    /\ dir_idx = 0
    /\ found = <<>>
    /\ returned = <<>>

\* lines 287-290: the directories of the media type asked for
media_selected(i, media_type) == media_type \in {"all", dir_kind(i)}

\* lines 269-301: the clip directories to scan.
GetClipFolders ==
    /\ scan_pc = "idle"
    /\ scan_request.roots # <<>>
    /\ LET dirs == SelectSeq([i \in DOMAIN scan_request.roots |-> i],
                             LAMBDA i : media_selected(i, scan_request.media_type))
       IN  /\ clip_dirs' = dirs
           /\ scan_pc' = IF dirs = <<>> THEN "sort" ELSE "scan"
    /\ dir_idx' = 1
    /\ found' = <<>>
    /\ returned' = <<>>
    /\ UNCHANGED <<exporter_vars, answer, scan_request>>

\* line 313: f"_{game_id}_" in folder_entry.name, on a name split at "_"
game_filter_passes(parts, game_id) ==
    \/ game_id = ""
    \/ \E i \in 2..(Len(parts) - 1) : parts[i] = game_id

\* lines 307-313: the tests an entry passes to be appended.
accepted(e, game_id) ==
    /\ e.is_dir
    /\ Len(e.name) >= 2
    /\ e.has_mpd
    /\ game_filter_passes(e.name, game_id)

FoundFolder(d, k, e) == [path |-> <<d, k>>, name |-> e.name]

\* the entries of a clip directory that os.scandir yields before it raises
yielded(dir) ==
    IF dir.error_at = 0 THEN Len(dir.entries) ELSE Min(dir.error_at - 1, Len(dir.entries))

\* lines 305-316 without the except clause
scan_clip_dir_uncaught(d, dir, game_id) ==
    [appended |-> SelectSeq([k \in 1..yielded(dir) |-> FoundFolder(d, k, dir.entries[k])],
                            LAMBDA f : accepted(dir.entries[f.path[2]], game_id)),
     raised |-> dir.error_at > 0]

\* lines 305-316: the folders one clip directory adds; an OSError ends the
\* scan of the directory and is logged.
scan_clip_dir(d, dir, game_id) ==
    [appended |-> SelectSeq([k \in 1..yielded(dir) |-> FoundFolder(d, k, dir.entries[k])],
                            LAMBDA f : accepted(dir.entries[f.path[2]], game_id)),
     raised |-> FALSE]

\* lines 304-316: one turn of the loop over clip_dirs.
ScanClipDir ==
    /\ scan_pc = "scan"
    /\ LET d == clip_dirs[dir_idx]
           scanned == scan_clip_dir(d, scan_request.roots[d], scan_request.game_id)
       IN  /\ found' = found \o scanned.appended
           /\ scan_pc' = IF scanned.raised THEN "raised"
                         ELSE IF dir_idx = Len(clip_dirs) THEN "sort" ELSE "scan"
    /\ dir_idx' = dir_idx + 1
    /\ UNCHANGED <<exporter_vars, answer, scan_request, clip_dirs, returned>>

\* list.sort with reverse=True placing an element before its equals
insert_newest_first_unstable(sorted, f) ==
    LET k == Cardinality({i \in DOMAIN sorted :
                 extract_datetime_from_folder_name(sorted[i].name)
                     > extract_datetime_from_folder_name(f.name)})
    IN  SubSeq(sorted, 1, k) \o <<f>> \o SubSeq(sorted, k + 1, Len(sorted))

\* list.sort(key=..., reverse=True) is stable: an element goes after every
\* element whose key is greater or equal.
insert_newest_first(sorted, f) ==
    LET k == Cardinality({i \in DOMAIN sorted :
                 extract_datetime_from_folder_name(sorted[i].name)
                     >= extract_datetime_from_folder_name(f.name)})
    IN  SubSeq(sorted, 1, k) \o <<f>> \o SubSeq(sorted, k + 1, Len(sorted))

RECURSIVE sort_newest_first(_)
sort_newest_first(folders) ==
    IF folders = <<>> THEN <<>>
    ELSE insert_newest_first(sort_newest_first(SubSeq(folders, 1, Len(folders) - 1)),
                             folders[Len(folders)])

\* lines 318-320: the sort and the return.
SortClipFolders ==
    /\ scan_pc = "sort"
    /\ returned' = sort_newest_first(found)
    /\ scan_pc' = "done"
    /\ UNCHANGED <<exporter_vars, answer, scan_request, clip_dirs, dir_idx, found>>

NextScan ==
    \/ GetClipFolders
    \/ ScanClipDir
    \/ SortClipFolders

SpecScan == InitScan /\ [][NextScan]_vars

\* ------------------------------------------- staging one manifest's streams
\* lines 494-514 alone: the chunk files of one manifest directory, written
\* after the initialization file in the order sorted(glob.glob(...)) gives.

\* the decimal digits of N, as str(N) writes them
RECURSIVE Digits(_)
Digits(n) == IF n < 10 THEN <<n>> ELSE Digits(n \div 10) \o <<n % 10>>

\* the part of chunk-stream<s>-<N>.m4s that differs between two chunk files
\* of one stream: the digits of N and the "." after them. A character is
\* its rank in code point order: "." is below every digit.
Dot == 0 - 1

chunk_name(n) == Digits(n) \o <<Dot>>

\* Python's str comparison, which sorted() uses: by code point, left to right
RECURSIVE str_less(_, _)
str_less(a, b) ==
    IF b = <<>> THEN FALSE
    ELSE IF a = <<>> THEN TRUE
    ELSE IF Head(a) # Head(b) THEN Head(a) < Head(b)
    ELSE str_less(Tail(a), Tail(b))

\* sorted(glob.glob('chunk-stream<s>-*.m4s')): the chunk files by name
sorted_glob(indices) ==
    LET rank(n) == 1 + Cardinality({m \in indices : str_less(chunk_name(m), chunk_name(n))})
    IN  [i \in 1..Cardinality(indices) |-> CHOOSE n \in indices : rank(n) = i]

InitFile == [file |-> "init", index |-> 0]

ChunkFile(n) == [file |-> "chunk", index |-> n]

\* what one temporary stream file holds: the init file's bytes, then each
\* chunk's bytes
stage_stream(indices) ==
    <<InitFile>> \o [i \in 1..Cardinality(indices) |-> ChunkFile(sorted_glob(indices)[i])]

InitStage ==
    /\ NoDiscovery
    /\ answer = NoAnswer
    /\ budget = [calls |-> 0, faults |-> 0]
    /\ max_workers = init_max_workers(0, 0)
    /\ clip_folders = <<>>
    /\ clip_names = <<>>
    /\ folder = <<>>
    /\ pc = <<>>
    /\ temp_files_to_cleanup = <<>>
    /\ output_file = <<>>
    /\ game_name = <<>>
    /\ result = <<>>
    /\ created = <<>>
    /\ invoked = <<>>
    /\ src = <<>>
    /\ prev = <<>>
    /\ game_ids = StartCache
    /\ game_ids_file = Saved(StartCache)
    /\ outfiles = <<>>
    /\ temp_dir_exists = TRUE
    /\ temp_files = {}
    /\ sys_temp = SysTempInit
    /\ sys_temp_exists = TRUE
    /\ op = "none"
    /\ delete_source = FALSE
    /\ run = 0
    /\ bpc = "idle"
    /\ successful = <<>>
    /\ failed = <<>>
    /\ del_idx = 0
    /\ deleted = <<>>
    /\ skipped = <<>>
    /\ scan_idx = 0
    /\ del_calls = {}
    /\ overwritten = {}
    /\ chunk_indices \in SUBSET (0..MaxChunk)
    /\ staged = NoStaged

\* lines 494-503: the video stream, from init-stream0.m4s and chunk-stream0-*
StageVideo ==
    /\ staged.stream = "none"
    /\ staged' = [stream |-> "video", parts |-> stage_stream(chunk_indices)]
    /\ UNCHANGED <<conversion_vars, chunk_indices, answer, discovery_vars>>

\* lines 505-514: the audio stream, from init-stream1.m4s and chunk-stream1-*
StageAudio ==
    /\ staged.stream = "video"
    /\ staged' = [stream |-> "audio", parts |-> stage_stream(chunk_indices)]
    /\ UNCHANGED <<conversion_vars, chunk_indices, answer, discovery_vars>>

NextStage ==
    \/ StageVideo
    \/ StageAudio

SpecStage == InitStage /\ [][NextStage]_vars

\* ------------------------------------------------------------------ claims
BatchReturned == op = "batch" /\ bpc = "idle"

Finished(c) == pc[c] \in {"done", "collected"}

InSeq(x, q) == \E i \in DOMAIN q : q[i] = x

Occurrences(x, q) == Cardinality({i \in DOMAIN q : q[i] = x})

FailedClips == [i \in DOMAIN failed |-> failed[i][1]]

Unmarked(fold) == fold.exists /\ fold.manifests = <<>> /\ ~fold.stray_m4s

\* the output files the task of clip c wrote in the current call
WrittenBy(c) == {f \in DOMAIN outfiles : outfiles[f].by = c /\ outfiles[f].run = run}

\* the output files conversions of clip c wrote in any call
OutputsOf(c) == {f \in DOMAIN outfiles : outfiles[f].by = c}

\* C1: in a batch with delete_source, a call of delete_source_folder removes
\* a source folder only when no conversion task of another clip of the batch
\* is still to return.
C1_DeletionAfterAllTasks ==
    op = "batch" =>
        \A e \in del_calls :
            (e.before.exists /\ ~e.after.exists) => e.pending \ {e.clip} = {}

\* C2: a clip converted by one batch is found again by the next: its task
\* reports "Already converted", invokes the transcoder zero times, and the
\* clip has exactly one output file.
C2_Idempotent ==
    \A c \in TheClips :
        (op = "batch" /\ Finished(c) /\ prev[c].kind = "Converted" /\ src[c].exists)
            => /\ result[c].kind \in AlreadyKinds
               /\ invoked[c] = <<>>
               /\ Cardinality(OutputsOf(c)) = 1

\* C3: the source folder of a clip recorded in results['failed'] is deleted
\* neither by its task nor by the deletion loop of the batch.
C3_FailedNeverDeleted ==
    op = "batch" =>
        \A i \in DOMAIN failed :
            /\ folder[failed[i][1]] = src[failed[i][1]]
            /\ \A e \in del_calls : e.clip = failed[i][1] => e.after = e.before

C3_Witness ==
    /\ BatchReturned
    /\ delete_source
    /\ failed # <<>>
    /\ \E e \in del_calls : e.by = "batch" /\ e.before.exists /\ ~e.after.exists

\* C4: once every future is collected, successful and failed together hold
\* every submitted clip exactly once, also when a task raised.
C4_BatchPartition ==
    (op = "batch" /\ bpc \in {"idle", "delete"}) =>
        /\ Len(successful) + Len(failed) = Len(clip_folders)
        /\ \A c \in TheClips : Occurrences(c, successful) + Occurrences(c, FailedClips) = 1

C4_Witness ==
    /\ BatchReturned
    /\ Len(clip_folders) > 1
    /\ successful # <<>>
    /\ \E c \in TheClips : result[c].raised /\ failed[1][1] = c

\* C5: when a task has returned, no temporary file it created is left in the
\* staging directory, and a failed conversion left no partly written output.
C5_TempFilesReleased ==
    \A c \in TheClips :
        Finished(c) =>
            /\ created[c] \cap temp_files = {}
            /\ ~result[c].ok => \A f \in WrittenBy(c) : outfiles[f].kind # "partial"

\* C6: no two tasks hold the same output path for their final mux, and no
\* output file is written over an existing one.
C6_DistinctOutputPaths ==
    /\ overwritten = {}
    /\ \A c, d \in TheClips :
        (c # d /\ pc[c] = "mux" /\ pc[d] = "mux") => output_file[c] # output_file[d]

\* C7: delete_source_folder called on an existing folder holding neither
\* session.mpd nor an .m4s file returns False and leaves the folder as it was;
\* the caller reports the clip as not deleted.
C7_RefusesUnmarked ==
    \A e \in del_calls :
        Unmarked(e.before) =>
            /\ ~e.ok
            /\ e.after = e.before
            /\ folder[e.clip] = e.before
            /\ e.by = "cleanup" => ~InSeq(e.clip, deleted)
            /\ (e.by = "task" /\ Finished(e.clip)) => result[e.clip].kind = "AlreadyDeleteFailed"

C7_Witness ==
    /\ BatchReturned
    /\ \E e1, e2 \in del_calls :
        /\ e1.clip = e2.clip
        /\ e1.by = "task"
        /\ e2.by = "batch"
        /\ Unmarked(e2.before)

\* C8: when the batch returns, every clip whose task did not succeed is in
\* results['failed'] with a message, and no clip owes its outcome to a clip
\* that failed: a file a task found as "already converted" was there before
\* the call or was written by a task that succeeded.
C8_FailureIsolated ==
    BatchReturned =>
        /\ \A c \in TheClips : (result[c].raised \/ ~result[c].ok) => InSeq(c, FailedClips)
        /\ \A c \in TheClips :
            result[c].kind \in AlreadyKinds =>
                \/ outfiles[result[c].file].run # run
                \/ InSeq(outfiles[result[c].file].by, successful)

Incomplete(m) == ~m.init_video \/ ~m.init_audio

FirstIncomplete(ms) ==
    IF \E i \in DOMAIN ms : Incomplete(ms[i])
    THEN CHOOSE i \in DOMAIN ms : Incomplete(ms[i]) /\ \A j \in 1..(i - 1) : ~Incomplete(ms[j])
    ELSE 0

C10_TranscoderFailureReported ==
    \A c \in TheClips :
        \A i \in DOMAIN invoked[c] :
            (Finished(c) /\ ~invoked[c][i].ok) =>
                /\ ~result[c].raised
                /\ ~result[c].ok
                /\ result[c].kind = "FFmpegError"
                /\ invoked[c][i].stderr = "text" => result[c].diag = "text"
                /\ i = Len(invoked[c])

\* C11: at every moment of a batch the number of tasks inside
\* process_single_clip is at most self.max_workers, and the default of
\* self.max_workers lies in 2..6 for every processor count.
C11_PoolBounded ==
    /\ Cardinality(Running) <= max_workers
    /\ \A cpu_count \in 0..MaxCpus : init_max_workers(0, cpu_count) \in 2..6

C11_Witness ==
    /\ Cardinality(Running) = max_workers
    /\ \E c \in TheClips : pc[c] = "queued"

\* C12: at most one worker at a time is inside the update of the game-name
\* cache and the write of GameIDs.json, and the file is never left torn.
C12_SingleCacheWriter ==
    /\ Cardinality(Saving) <= 1
    /\ game_ids_file.valid

SkippedClips == [i \in DOMAIN skipped |-> skipped[i][1]]

\* what check_converted_exists answers for clip c in the current state
ExistingFor(c) ==
    check_converted_exists(DOMAIN outfiles,
                           get_expected_output_filename(game_ids, clip_names[c], NoName))

\* C15: cleanup_existing_sources invokes no transcoder and writes no output
\* file; when it returns every clip is in exactly one of deleted and skipped;
\* a clip in deleted has an output that check_converted_exists finds and a
\* delete_source_folder call that succeeded; a clip skipped for want of an
\* output has no such output and its folder is untouched.
C15_CleanupOnlyReconciles ==
    op = "cleanup" =>
        /\ \A c \in TheClips : invoked[c] = <<>> /\ WrittenBy(c) = {}
        /\ overwritten = {}
        /\ bpc = "idle" =>
               /\ Len(deleted) + Len(skipped) = Len(clip_folders)
               /\ \A c \in TheClips :
                      Occurrences(c, deleted) + Occurrences(c, SkippedClips) = 1
        /\ \A c \in TheClips :
               InSeq(c, deleted) =>
                   /\ ExistingFor(c) # NoFile
                   /\ \E e \in del_calls : e.clip = c /\ e.by = "cleanup" /\ e.ok
        /\ \A i \in DOMAIN skipped :
               skipped[i][2] = "No converted file found" =>
                   /\ ExistingFor(skipped[i][1]) = NoFile
                   /\ folder[skipped[i][1]] = src[skipped[i][1]]
                   /\ \A e \in del_calls : e.clip # skipped[i][1]

C15_Witness ==
    /\ op = "cleanup"
    /\ bpc = "idle"
    /\ deleted # <<>>
    /\ \E i \in DOMAIN skipped : skipped[i][2] = "Failed to delete source"

\* C18: delete_source_folder called on a folder that does not exist returns
\* True and changes nothing.
C18_AbsentFolderIsSuccess ==
    \A e \in del_calls :
        ~e.before.exists => e.ok /\ e.after = e.before /\ ~folder[e.clip].exists

C18_Witness ==
    \E e1, e2 \in del_calls :
        /\ e1.clip = e2.clip
        /\ e1.by = "task" /\ e1.before.exists /\ ~e1.after.exists
        /\ e2.by = "batch" /\ ~e2.before.exists

\* C19: a clip is reported "Already converted", and its source folder is
\* deleted by its task or by cleanup_existing_sources, only on the strength of
\* an output file of that clip: a file written by the conversion of another
\* clip of the same expected name does not count.  A file that was in the
\* output directory before the first call is taken to be the clip's own.
C19_OwnOutputOnly ==
    /\ \A c \in TheClips :
        result[c].kind \in AlreadyKinds => outfiles[result[c].file].by \in {0, c}
    /\ \A e \in del_calls :
        (e.by \in {"task", "cleanup"} /\ e.before.exists /\ ~e.after.exists) =>
            \E f \in DOMAIN outfiles : outfiles[f].by \in {0, e.clip}

\* the clip, the directory and the names a call made alone worked on
AskedFiles == DOMAIN outfiles

AskedExpected == get_expected_output_filename(game_ids, clip_names[1], NoName)

AskedClean == sanitize_filename(AskedExpected)

\* C13: get_unique_filename returns a name that is not in the directory: the
\* sanitized name if it is free, otherwise base_n.ext for the smallest n >= 1
\* that is free.
C13_UniqueName ==
    answer.call = "get_unique_filename" =>
        LET base_name == splitext(AskedClean)[1]
            ext == splitext(AskedClean)[2]
        IN  /\ answer.path \notin AskedFiles
            /\ AskedClean \notin AskedFiles => answer.path = AskedClean
            /\ AskedClean \in AskedFiles =>
                   \E n \in 1..(ProbeLimit + 2) :
                       /\ answer.path = Numbered(base_name, n, ext)
                       /\ \A m \in 1..(n - 1) : Numbered(base_name, m, ext) \in AskedFiles

C13_Witness ==
    /\ answer.call = "get_unique_filename"
    /\ answer.path = Numbered(splitext(AskedClean)[1], 2, splitext(AskedClean)[2])
    /\ AskedClean # AskedExpected

\* the suffixes 1..100 under which a variant of the expected name exists
FoundSuffixes ==
    {n \in 1..100 :
        Numbered(splitext(AskedExpected)[1], n, splitext(AskedExpected)[2]) \in AskedFiles}

\* C14: check_converted_exists returns the expected path if it exists,
\* otherwise the existing variant with the smallest suffix in 1..100,
\* otherwise none, also when only variants above 100 exist; it makes at most
\* 101 existence probes.
C14_ProbeUpTo100 ==
    answer.call = "check_converted_exists" =>
        /\ AskedExpected \in AskedFiles => answer.path = AskedExpected
        /\ (AskedExpected \notin AskedFiles /\ FoundSuffixes # {}) =>
               \E n \in FoundSuffixes :
                   /\ \A m \in FoundSuffixes : n <= m
                   /\ answer.path = Numbered(splitext(AskedExpected)[1], n,
                                             splitext(AskedExpected)[2])
        /\ (AskedExpected \notin AskedFiles /\ FoundSuffixes = {}) => answer.path = NoFile
        /\ answer.probes <= 101

C14_Witness ==
    /\ answer.call = "check_converted_exists"
    /\ answer.path = NoFile
    /\ answer.probes = 101
    /\ Numbered(splitext(AskedExpected)[1], 101, splitext(AskedExpected)[2]) \in AskedFiles

\* C20: the path check_converted_exists probes for a clip is the path a
\* conversion of that clip into an empty output directory writes, for every
\* game name.
C20_ExpectedIsWritten ==
    (answer.call = "get_unique_filename" /\ AskedFiles = {}) => answer.path = AskedExpected

KeyOf(f) == extract_datetime_from_folder_name(f.name)

PosIn(f, q) == CHOOSE i \in DOMAIN q : q[i] = f

\* the returned list holds the folders found, newest first, folders of equal
\* timestamp in the order they were found
SortedStable ==
    /\ Len(returned) = Len(found)
    /\ \A i \in DOMAIN found : InSeq(found[i], returned)
    /\ \A i, j \in DOMAIN returned :
        i < j =>
            \/ KeyOf(returned[i]) > KeyOf(returned[j])
            \/ /\ KeyOf(returned[i]) = KeyOf(returned[j])
               /\ PosIn(returned[i], found) < PosIn(returned[j], found)

\* C16 as stated: get_clip_folders returns the folders newest first, equal
\* timestamps in discovery order, and every folder whose name does not parse
\* after every folder whose name parses.
C16_NewestFirstStable ==
    scan_pc = "done" =>
        /\ SortedStable
        /\ \A i, j \in DOMAIN returned :
            (~strptime_ok(returned[i].name) /\ strptime_ok(returned[j].name)) => j < i

\* C16 as amended: get_clip_folders returns the folders newest first, equal
\* timestamps in discovery order, and every folder whose name does not parse
\* after every folder whose name parses to a time later than datetime.min.
C16_NewestFirstStableAboveMin ==
    scan_pc = "done" =>
        /\ SortedStable
        /\ \A i, j \in DOMAIN returned :
            (/\ ~strptime_ok(returned[i].name)
             /\ strptime_ok(returned[j].name)
             /\ KeyOf(returned[j]) > DatetimeMin) => j < i

C16_Witness ==
    /\ scan_pc = "done"
    /\ Len(returned) >= 3
    /\ returned # found
    /\ \E i, j \in DOMAIN returned :
        i < j /\ returned[i].name = CleanName /\ returned[j].name = CleanName
    /\ \E i \in DOMAIN returned : ~strptime_ok(returned[i].name)

\* the entry a found folder stands for
EntryOf(f) == scan_request.roots[f.path[1]].entries[f.path[2]]

\* C17: an OSError while one clip directory is scanned does not end
\* get_clip_folders: it returns, its result holds every accepted folder of
\* every directory that was scanned without error, and every folder of the
\* result holds a session.mpd.
C17_ScanSurvivesErrors ==
    /\ scan_pc # "raised"
    /\ scan_pc = "done" =>
        /\ \A d \in DOMAIN scan_request.roots :
            (media_selected(d, scan_request.media_type) /\ scan_request.roots[d].error_at = 0) =>
                \A k \in DOMAIN scan_request.roots[d].entries :
                    accepted(scan_request.roots[d].entries[k], scan_request.game_id) =>
                        InSeq(FoundFolder(d, k, scan_request.roots[d].entries[k]), returned)
        /\ \A i \in DOMAIN returned : EntryOf(returned[i]).is_dir /\ EntryOf(returned[i]).has_mpd

C17_Witness ==
    /\ scan_pc = "done"
    /\ scan_request.roots[1].error_at > 0
    /\ scan_request.roots[2].error_at = 0
    /\ \E i \in DOMAIN returned : returned[i].path[1] = 2

\* C21: a task reports "Successfully converted" only if its output file
\* exists and what the task wrote to it is not empty.
C21_SuccessMeansNonEmptyOutput ==
    \A c \in TheClips :
        result[c].kind = "Converted" =>
            /\ result[c].file \in DOMAIN outfiles
            /\ outfiles[result[c].file].by = c => outfiles[result[c].file].kind # "empty"

\* C22: a task removes only temporary files it created itself: it registers
\* for removal no file of another task, and no file of another program
\* disappears from the system temporary directory.
C22_DeletesOnlyOwnTempFiles ==
    /\ \A c, d \in TheClips : c # d => temp_files_to_cleanup[c] \cap created[d] = {}
    /\ sys_temp = SysTempInit

\* C23: in a batch with delete_source false no delete_source_folder call is
\* made and the source folder of every clip is as it was when its task
\* started, whatever the outcome of the task.
C23_SourcesKeptWithoutDeleteSource ==
    (op = "batch" /\ ~delete_source) =>
        /\ del_calls = {}
        /\ \A c \in TheClips : pc[c] # "queued" => folder[c] = src[c] /\ folder[c].exists

C23_Witness ==
    /\ BatchReturned
    /\ ~delete_source
    /\ failed # <<>>
    /\ \E c \in TheClips : result[c].kind = "AlreadySkipped"

\* C24: a task invokes the transcoder at most three times, in the order video
\* remux, audio remux, final mux; the final mux comes only after both remux
\* invocations exited 0; a task that wrote an output file invoked the mux.
C24_InvocationOrder ==
    \A c \in TheClips :
        /\ Len(invoked[c]) <= 3
        /\ \A i \in DOMAIN invoked[c] : invoked[c][i].what = <<"video", "audio", "mux">>[i]
        /\ Len(invoked[c]) = 3 => invoked[c][1].ok /\ invoked[c][2].ok
        /\ pc[c] = "mux" => Len(invoked[c]) = 2 /\ invoked[c][1].ok /\ invoked[c][2].ok
        /\ WrittenBy(c) # {} => Len(invoked[c]) = 3

C24_Witness ==
    \E c, d \in TheClips :
        /\ Finished(c) /\ Len(invoked[c]) = 3
        /\ Finished(d) /\ Len(invoked[d]) = 2 /\ ~invoked[d][2].ok

\* C25: a task whose check_converted_exists found an output returns success,
\* invokes the transcoder zero times, creates no temporary file, chooses and
\* writes no output file; when every task of the call ended so, no staging
\* directory was created and the output directory is as before the call.
C25_AlreadyConvertedShortCircuit ==
    /\ \A c \in TheClips :
        result[c].kind \in AlreadyKinds =>
            /\ result[c].ok
            /\ result[c].file \in DOMAIN outfiles
            /\ invoked[c] = <<>>
            /\ created[c] = {}
            /\ output_file[c] = NoFile
            /\ WrittenBy(c) = {}
    /\ (op = "batch" /\ run = 1 /\ \A c \in TheClips : result[c].kind \in AlreadyKinds) =>
            ~temp_dir_exists /\ temp_files = {} /\ outfiles \in OutInits

C25_Witness ==
    /\ BatchReturned
    /\ Len(clip_folders) = NumClips
    /\ \A c \in TheClips : result[c].kind \in AlreadyKinds

\* C30: when a batch has returned and no temporary file is left in the
\* staging directory, the staging directory is gone.
C30_EmptyStagingDirRemoved ==
    (BatchReturned /\ temp_files = {}) => ~temp_dir_exists

\* C26: the staged stream of a manifest is its initialization file followed
\* by all its chunk files in ascending order of the chunk index N, whatever
\* the number of digits of the indices; with no chunk it is the
\* initialization file alone.
C26_ChunksInIndexOrder ==
    staged.stream # "none" =>
        /\ staged.parts[1] = InitFile
        /\ {staged.parts[i].index : i \in 2..Len(staged.parts)} = chunk_indices
        /\ Len(staged.parts) = 1 + Cardinality(chunk_indices)
        /\ \A i, j \in 2..Len(staged.parts) :
               i < j => staged.parts[i].index < staged.parts[j].index

\* C27: get_clip_folders called with a game id returns only folders whose
\* game id, the token at index 1 of the folder name, is that id; a folder
\* holding the id in another position is not returned.
C27_GameFilterByToken ==
    (scan_pc = "done" /\ scan_request.game_id # "") =>
        \A i \in DOMAIN returned :
            folder_game_id(EntryOf(returned[i]).name) = scan_request.game_id

\* C28: for a folder name with fewer than three tokens, or whose last two
\* tokens are not a timestamp, the naming functions use the game id
\* "Unknown" and the date "UnknownDate", and sorting uses datetime.min.
C28_ParseFailureFallback ==
    (answer.call # "none" /\ ~strptime_ok(clip_names[1])) =>
        /\ extract_datetime_from_folder_name(clip_names[1]) = DatetimeMin
        /\ formatted_date(clip_names[1]) = <<"UnknownDate">>
        /\ folder_game_id(clip_names[1]) = "Unknown"
        /\ AskedExpected = game_ids["Unknown"] \o <<"_", "UnknownDate", Ext>>

\* C29: every process_clips_batch call returns, and when it does every
\* submitted clip has exactly one outcome, in successful or in failed,
\* whatever the order the tasks completed in; each task gets there through
\* get_unique_filename's search over the output directory.
C29_BatchTerminates ==
    (op = "batch" /\ bpc = "pool") ~>
        /\ BatchReturned
        /\ \A c \in TheClips :
               /\ pc[c] = "collected"
               /\ Occurrences(c, successful) + Occurrences(c, FailedClips) = 1

\* a call returned with both clips converted, the second one collected first,
\* one of them under a name the suffix search had to find
C29_Witness ==
    /\ BatchReturned
    /\ Len(successful) = NumClips
    /\ successful[1] > successful[2]
    /\ \A c \in TheClips : result[c].kind = "Converted"

====
